---- MODULE Spec2Model ----
(***************************************************************************)
(* The hard-sample training loop of src/lss_train.py: the balanced initial *)
(* training set, the PCA fitted once on the full feature matrix, and the   *)
(* loop that fits a classifier, evaluates it on the full data set, checks  *)
(* convergence and appends a sample of the misclassified rows to the       *)
(* training set, followed by the final report and the storing of the model.*)
(*                                                                         *)
(* Rows are numbered from 1 (Python numbers them from 0).  Floats that the *)
(* claims compare (threshold, learning rate, precision, recall) are exact  *)
(* fractions <<numerator, denominator>> with a positive denominator.       *)
(***************************************************************************)
EXTENDS Integers, Sequences, FiniteSets, TLC

VARIABLES
    max_epochs, convergence_threshold, initial_train_size, learning_rate,
    X, y, X_test, y_test, X_train, y_train,
    pca, pca_fits,
    converged, convergence, current_epoch,
    X_train_pca, X_test_pca, clf, y_pred, precision, recall,
    hard_samples_indexes, hard_samples_chosen,
    X_pca, evaluated_with, stored_model,
    pc, error

vars == <<max_epochs, convergence_threshold, initial_train_size, learning_rate,
          X, y, X_test, y_test, X_train, y_train, pca, pca_fits,
          converged, convergence, current_epoch,
          X_train_pca, X_test_pca, clf, y_pred, precision, recall,
          hard_samples_indexes, hard_samples_chosen,
          X_pca, evaluated_with, stored_model, pc, error>>

(***************************************************************************)
(* Bounds of the model.                                                    *)
(***************************************************************************)
\* rows of the full feature matrix
NumRows == 3

\* --epochs values tried
EpochBudgets == {0, 1, 2}
\* --threshold values tried: 0, 1/2, 1
Thresholds == {<<0, 1>>, <<1, 2>>, <<1, 1>>}
\* --learning-rate values tried: 0, 1/2, 1, 3/2
LearningRates == {<<0, 1>>, <<1, 2>>, <<1, 1>>, <<3, 2>>}
\* --initial-size values tried
InitialTrainSizes == {2}

\* classes_count, target_names = 2, ['0','1']
Labels == {0, 1}

Range(s) == {s[i] : i \in DOMAIN s}

\* the feature rows the feature extraction may deliver: all rows different,
\* or neighbouring rows sharing their features
FeatureMatrices ==
    {[i \in 1..NumRows |-> i], [i \in 1..NumRows |-> (i + 1) \div 2]}

\* the label vectors the feature extraction may deliver: both classes occur
LabelVectors == {v \in [1..NumRows -> Labels] : Range(v) = Labels}

(***************************************************************************)
(* Helpers of numpy, random and sklearn as the script uses them.           *)
(***************************************************************************)
\* M[idx] with a list of row numbers (a copy, M is left alone)
Take(M, idx) == [j \in 1..Len(idx) |-> M[idx[j]]]

\* the rows of b put in front of those of a
ConcatenateInFront(a, b) == b \o a

\* np.concatenate((a, b)): a new array, the rows of a followed by those of b
Concatenate(a, b) == a \o b

\* the row numbers 1..n in ascending order
Indexes(n) == [i \in 1..n |-> i]

\* [idx for idx, targets in enumerate(zip(y_true, y_predicted))
\*      if targets[0] != targets[1]]
HardSamplesIndexes(y_true, y_predicted) ==
    SelectSeq(Indexes(Len(y_true)), LAMBDA i : y_true[i] # y_predicted[i])

\* int(x) of the float x = num/den: truncation toward zero
IntTrunc(num, den) ==
    IF num >= 0 THEN num \div den ELSE -((-num) \div den)

\* the product rounded up instead of truncated
SampleSizeRoundedUp(rate, n) == (rate[1] * n + rate[2] - 1) \div rate[2]

\* int(learning_rate*len(hard_samples_indexes))
SampleSize(rate, n) == IntTrunc(rate[1] * n, rate[2])

\* a sample that also refuses an empty population
SampleRaisesOnEmpty(population, k) ==
    Len(population) = 0 \/ k > Len(population) \/ k < 0

\* random.sample raises ValueError("Sample larger than population or is
\* negative")
SampleRaises(population, k) == k > Len(population) \/ k < 0

\* random.sample(population, k): k positions drawn without replacement, in
\* any order
Sample(population, k) ==
    {Take(population, p) :
        p \in {q \in [1..k -> 1..Len(population)] :
                  \A a, b \in 1..k : a # b => q[a] # q[b]}}

\* PCA(...).fit(data): the fitted model is determined by the data it saw
PcaFit(data) == [fitted |-> TRUE, data |-> data]
NoPca == [fitted |-> FALSE, data |-> <<>>]

\* pca.fit_transform(M): the rows of M in the space of a model fitted to M
FitTransform(p, M) == [model |-> PcaFit(M), rows |-> M]

\* pca.transform(M): the rows of M in the space of the fitted model
Transform(p, M) == [model |-> p, rows |-> M]
NoProjection == [model |-> NoPca, rows |-> <<>>]

\* the name clf before any assignment to it
NoClf == [fitted |-> FALSE, epoch |-> -1, X |-> NoProjection, y |-> <<>>,
          decision |-> <<>>]

\* GridSearchCV(SVC(...)).fit(P, labels): some decision function over the
\* projected rows of the data set
Classifiers(P, labels, epoch, rows) ==
    {[fitted |-> TRUE, epoch |-> epoch, X |-> P, y |-> labels, decision |-> d] :
        d \in [Range(rows) -> Labels]}

\* clf.predict(P)
Predict(c, P) == [i \in 1..Len(P.rows) |-> c.decision[P.rows[i]]]

\* the labels precision_recall_fscore_support reports on: those that occur
\* in y_true or in y_predicted
PresentLabels(y_true, y_predicted) == Range(y_true) \cup Range(y_predicted)

Count(y_true, y_predicted, t, p) ==
    Cardinality({i \in DOMAIN y_true : y_true[i] = t /\ y_predicted[i] = p})

\* a ratio that sklearn reports as 0.0 when its denominator is 0
Ratio(num, den) == IF den = 0 THEN <<0, 1>> ELSE <<num, den>>

\* precision_recall_fscore_support(y_true, y_predicted)[0]
Precision(y_true, y_predicted) ==
    [c \in PresentLabels(y_true, y_predicted) |->
        Ratio(Count(y_true, y_predicted, c, c),
              Cardinality({i \in DOMAIN y_true : y_predicted[i] = c}))]

\* precision_recall_fscore_support(y_true, y_predicted)[1]
Recall(y_true, y_predicted) ==
    [c \in PresentLabels(y_true, y_predicted) |->
        Ratio(Count(y_true, y_predicted, c, c),
              Cardinality({i \in DOMAIN y_true : y_true[i] = c}))]

\* all(np.array(values) >= threshold)
AllGreaterOrEqual(values, threshold) ==
    \A c \in DOMAIN values :
        values[c][1] * threshold[2] >= threshold[1] * values[c][2]

\* all(np.array(values) > threshold)
AllGreater(values, threshold) ==
    \A c \in DOMAIN values :
        values[c][1] * threshold[2] > threshold[1] * values[c][2]

\* lss_data.assemble_initial_train_set(X, y, size): size/2 rows of each
\* class, drawn without replacement, features and labels kept aligned
InitialTrainSets(features, labels, size) ==
    LET ClassRows(c) == {i \in DOMAIN labels : labels[i] = c}
        Draws == {S \in SUBSET (DOMAIN labels) :
                     \A c \in Labels :
                         Cardinality(S \cap ClassRows(c)) = size \div 2}
        Rows(S) == SelectSeq(Indexes(Len(labels)), LAMBDA i : i \in S)
    IN  {<<Take(features, Rows(S)), Take(labels, Rows(S))>> : S \in Draws}

(***************************************************************************)
(* The script, statement by statement.                                     *)
(***************************************************************************)
Init ==
    /\ max_epochs \in EpochBudgets
    /\ convergence_threshold \in Thresholds
    /\ initial_train_size \in InitialTrainSizes
    /\ learning_rate \in LearningRates
    /\ X \in FeatureMatrices
    /\ y \in LabelVectors
    /\ X_test = <<>> /\ y_test = <<>>
    /\ X_train = <<>> /\ y_train = <<>>
    /\ pca = NoPca /\ pca_fits = 0
    /\ converged = FALSE /\ convergence = FALSE /\ current_epoch = 0
    /\ X_train_pca = NoProjection /\ X_test_pca = NoProjection
    /\ clf = NoClf
    /\ y_pred = <<>> /\ precision = <<>> /\ recall = <<>>
    /\ hard_samples_indexes = <<>> /\ hard_samples_chosen = <<>>
    /\ X_pca = NoProjection /\ evaluated_with = NoClf /\ stored_model = NoClf
    /\ pc = "assemble" /\ error = "none"

\* lines 127-134: X_test, y_test = X, y and the balanced initial training set
AssembleSets ==
    /\ pc = "assemble"
    /\ X_test' = X /\ y_test' = y
    /\ \E t \in InitialTrainSets(X, y, initial_train_size) :
          X_train' = t[1] /\ y_train' = t[2]
    /\ pc' = "pca"
    /\ UNCHANGED <<max_epochs, convergence_threshold, initial_train_size,
                   learning_rate, X, y, pca, pca_fits, converged, convergence,
                   current_epoch, X_train_pca, X_test_pca, clf, y_pred,
                   precision, recall, hard_samples_indexes,
                   hard_samples_chosen, X_pca, evaluated_with, stored_model,
                   error>>

\* lines 143-152: the PCA of the full data set, converged and current_epoch
FitProjection ==
    /\ pc = "pca"
    /\ pca' = PcaFit(X) /\ pca_fits' = pca_fits + 1
    /\ converged' = FALSE /\ current_epoch' = 0
    /\ pc' = "while"
    /\ UNCHANGED <<max_epochs, convergence_threshold, initial_train_size,
                   learning_rate, X, y, X_test, y_test, X_train, y_train,
                   convergence, X_train_pca, X_test_pca, clf, y_pred,
                   precision, recall, hard_samples_indexes,
                   hard_samples_chosen, X_pca, evaluated_with, stored_model,
                   error>>

\* while (current_epoch <= max_epochs and not converged)
LoopContinuesOffByOne == current_epoch <= max_epochs /\ ~converged

\* line 153: while (current_epoch < max_epochs and not converged)
LoopContinues == current_epoch < max_epochs /\ ~converged

LoopTest ==
    /\ pc = "while"
    /\ pc' = IF LoopContinues THEN "project" ELSE "report"
    /\ UNCHANGED <<max_epochs, convergence_threshold, initial_train_size,
                   learning_rate, X, y, X_test, y_test, X_train, y_train,
                   pca, pca_fits, converged, convergence, current_epoch,
                   X_train_pca, X_test_pca, clf, y_pred, precision, recall,
                   hard_samples_indexes, hard_samples_chosen, X_pca,
                   evaluated_with, stored_model, error>>

\* lines 160-161: both sets projected with the PCA
Project ==
    /\ pc = "project"
    /\ X_train_pca' = Transform(pca, X_train)
    /\ X_test_pca' = Transform(pca, X_test)
    /\ pc' = "fit"
    /\ UNCHANGED <<max_epochs, convergence_threshold, initial_train_size,
                   learning_rate, X, y, X_test, y_test, X_train, y_train,
                   pca, pca_fits, converged, convergence, current_epoch,
                   clf, y_pred, precision, recall, hard_samples_indexes,
                   hard_samples_chosen, X_pca, evaluated_with, stored_model,
                   error>>

\* lines 173-182: a new classifier fitted to the training set predicts the
\* test set
FitAndPredict ==
    /\ pc = "fit"
    /\ \E c \in Classifiers(X_train_pca, y_train, current_epoch, X) :
          /\ clf' = c
          /\ y_pred' = Predict(c, X_test_pca)
    /\ pc' = "check"
    /\ UNCHANGED <<max_epochs, convergence_threshold, initial_train_size,
                   learning_rate, X, y, X_test, y_test, X_train, y_train,
                   pca, pca_fits, converged, convergence, current_epoch,
                   X_train_pca, X_test_pca, precision, recall,
                   hard_samples_indexes, hard_samples_chosen, X_pca,
                   evaluated_with, stored_model, error>>

\* lines 187-193: precision and recall of every class, and the break when
\* all of them are above the threshold
CheckConvergence ==
    /\ pc = "check"
    /\ precision' = Precision(y_test, y_pred)
    /\ recall' = Recall(y_test, y_pred)
    /\ IF AllGreater(precision', convergence_threshold)
          /\ AllGreater(recall', convergence_threshold)
       THEN convergence' = TRUE /\ pc' = "report"
       ELSE convergence' = convergence /\ pc' = "select"
    /\ UNCHANGED <<max_epochs, convergence_threshold, initial_train_size,
                   learning_rate, X, y, X_test, y_test, X_train, y_train,
                   pca, pca_fits, converged, current_epoch, X_train_pca,
                   X_test_pca, clf, y_pred, hard_samples_indexes,
                   hard_samples_chosen, X_pca, evaluated_with, stored_model,
                   error>>

\* lines 196-197: the misclassified rows and the sample drawn from them
SelectHardSamples ==
    /\ pc = "select"
    /\ hard_samples_indexes' = HardSamplesIndexes(y_test, y_pred)
    /\ LET k == SampleSize(learning_rate, Len(hard_samples_indexes'))
       IN  IF SampleRaises(hard_samples_indexes', k)
           THEN /\ pc' = "failed" /\ error' = "ValueError"
                /\ UNCHANGED hard_samples_chosen
           ELSE /\ hard_samples_chosen' \in Sample(hard_samples_indexes', k)
                /\ pc' = "add" /\ UNCHANGED error
    /\ UNCHANGED <<max_epochs, convergence_threshold, initial_train_size,
                   learning_rate, X, y, X_test, y_test, X_train, y_train,
                   pca, pca_fits, converged, convergence, current_epoch,
                   X_train_pca, X_test_pca, clf, y_pred, precision, recall,
                   X_pca, evaluated_with, stored_model>>

\* the chosen rows moved from the test set to the training set
AddHardSamplesMoved ==
    /\ pc = "add"
    /\ X_train' = Concatenate(X_train, Take(X_test, hard_samples_chosen))
    /\ y_train' = Concatenate(y_train, Take(y_test, hard_samples_chosen))
    /\ LET kept == SelectSeq(Indexes(Len(X_test)),
                             LAMBDA i : i \notin Range(hard_samples_chosen))
       IN  X_test' = Take(X_test, kept) /\ y_test' = Take(y_test, kept)
    /\ current_epoch' = current_epoch + 1
    /\ pc' = "while"
    /\ UNCHANGED <<max_epochs, convergence_threshold, initial_train_size,
                   learning_rate, X, y, pca, pca_fits,
                   converged, convergence, X_train_pca, X_test_pca, clf,
                   y_pred, precision, recall, hard_samples_indexes,
                   hard_samples_chosen, X_pca, evaluated_with, stored_model,
                   error>>

\* lines 202-210: the chosen rows appended to the training set, and the
\* epoch counted
AddHardSamples ==
    /\ pc = "add"
    /\ X_train' = Concatenate(X_train, Take(X_test, hard_samples_chosen))
    /\ y_train' = Concatenate(y_train, Take(y_test, hard_samples_chosen))
    /\ current_epoch' = current_epoch + 1
    /\ pc' = "while"
    /\ UNCHANGED <<max_epochs, convergence_threshold, initial_train_size,
                   learning_rate, X, y, X_test, y_test, pca, pca_fits,
                   converged, convergence, X_train_pca, X_test_pca, clf,
                   y_pred, precision, recall, hard_samples_indexes,
                   hard_samples_chosen, X_pca, evaluated_with, stored_model,
                   error>>

\* a final report that first fits the classifier again, on the training set
\* as the loop left it
FinalReportRefitted ==
    /\ pc = "report"
    /\ X_pca' = Transform(pca, X)
    /\ \E c \in Classifiers(Transform(pca, X_train), y_train, current_epoch, X) :
          /\ clf' = c
          /\ y_pred' = Predict(c, X_pca')
          /\ evaluated_with' = c
    /\ pc' = "store"
    /\ UNCHANGED <<max_epochs, convergence_threshold, initial_train_size,
                   learning_rate, X, y, X_test, y_test, X_train, y_train,
                   pca, pca_fits, converged, convergence, current_epoch,
                   X_train_pca, X_test_pca, precision, recall,
                   hard_samples_indexes, hard_samples_chosen, stored_model,
                   error>>

\* lines 214-235: the full data set projected and predicted by clf; clf is
\* an unbound name when no epoch ran
FinalReport ==
    /\ pc = "report"
    /\ X_pca' = Transform(pca, X)
    /\ IF clf.fitted
       THEN /\ y_pred' = Predict(clf, X_pca')
            /\ evaluated_with' = clf
            /\ pc' = "store" /\ UNCHANGED error
       ELSE /\ pc' = "failed" /\ error' = "NameError"
            /\ UNCHANGED <<y_pred, evaluated_with>>
    /\ UNCHANGED <<max_epochs, convergence_threshold, initial_train_size,
                   learning_rate, X, y, X_test, y_test, X_train, y_train,
                   pca, pca_fits, converged, convergence, current_epoch,
                   X_train_pca, X_test_pca, clf, precision, recall,
                   hard_samples_indexes, hard_samples_chosen, stored_model>>

\* lines 238-239: joblib.dump(clf, model_filename)
StoreModel ==
    /\ pc = "store"
    /\ stored_model' = clf
    /\ pc' = "done"
    /\ UNCHANGED <<max_epochs, convergence_threshold, initial_train_size,
                   learning_rate, X, y, X_test, y_test, X_train, y_train,
                   pca, pca_fits, converged, convergence, current_epoch,
                   X_train_pca, X_test_pca, clf, y_pred, precision, recall,
                   hard_samples_indexes, hard_samples_chosen, X_pca,
                   evaluated_with, error>>

Next ==
    \/ AssembleSets
    \/ FitProjection
    \/ LoopTest
    \/ Project
    \/ FitAndPredict
    \/ CheckConvergence
    \/ SelectHardSamples
    \/ AddHardSamples
    \/ FinalReport
    \/ StoreModel

Spec == Init /\ [][Next]_vars

\* The options, and one data set with all rows different and the two
\* classes alternating
FairInit ==
    /\ Init
    /\ X = [i \in 1..NumRows |-> i]
    /\ y = [i \in 1..NumRows |-> i % 2]

\* The script is one sequential process: a statement that can run, runs.
\* Every option value, every classifier and every sample is tried on the
\* one data set.
FairSpec == FairInit /\ [][Next]_vars /\ WF_vars(Next)

(***************************************************************************)
(* What the claims speak of, computed from the labels and the predictions  *)
(* directly.                                                               *)
(***************************************************************************)
\* the evaluation rows whose prediction differs from the true label
Disagreements == {i \in 1..Len(y) : y[i] # y_pred[i]}

TruePositives(c) == Cardinality({i \in 1..Len(y) : y[i] = c /\ y_pred[i] = c})
PredictedAs(c) == Cardinality({i \in 1..Len(y) : y_pred[i] = c})
ActualOf(c) == Cardinality({i \in 1..Len(y) : y[i] = c})

\* num/den > threshold, a quotient with no denominator counting as 0
Exceeds(num, den, threshold) ==
    IF den = 0 THEN 0 > threshold[1]
    ELSE num * threshold[2] > threshold[1] * den

PrecisionExceeds(c) ==
    Exceeds(TruePositives(c), PredictedAs(c), convergence_threshold)
RecallExceeds(c) ==
    Exceeds(TruePositives(c), ActualOf(c), convergence_threshold)

\* the four conjuncts of the convergence condition
FourConjuncts ==
    /\ PrecisionExceeds(0) /\ RecallExceeds(0)
    /\ PrecisionExceeds(1) /\ RecallExceeds(1)

\* floor(learning_rate * n)
FloorOfRate(n) == (learning_rate[1] * n) \div learning_rate[2]

InEpoch == pc \in {"project", "fit", "check", "select", "add"}
LoopLeft == pc \in {"report", "store", "done", "failed"}

\* the epoch that ran last when the loop was left
LastEpoch == IF convergence THEN current_epoch ELSE current_epoch - 1

(***************************************************************************)
(* C1: the loop terminates, every epoch starts with the counter below      *)
(* max_epochs, and the counter, which counts the epochs that selected hard *)
(* samples, never exceeds max_epochs.                                      *)
(***************************************************************************)
C1_LoopTerminatesWithinBudget ==
    /\ <>LoopLeft
    /\ [](InEpoch => current_epoch < max_epochs)
    /\ [](current_epoch <= max_epochs)
    /\ [][current_epoch' # current_epoch =>
            pc = "add" /\ current_epoch' = current_epoch + 1]_vars

\* the budget was used up by two epochs that selected hard samples
C1_Witness ==
    pc = "done" /\ ~convergence /\ current_epoch = max_epochs /\ max_epochs = 2

(***************************************************************************)
(* C2: the convergence check leaves the loop if and only if precision and  *)
(* recall of class 0 and of class 1 are all strictly above the threshold.  *)
(***************************************************************************)
C2_ConvergenceIffFourConjuncts ==
    [][pc = "check" =>
         /\ (pc' = "report") <=> FourConjuncts
         /\ (pc' = "select") <=> ~FourConjuncts]_vars

\* one weak class alone kept the loop going
C2_Witness ==
    /\ pc = "select"
    /\ PrecisionExceeds(0) /\ RecallExceeds(0)
    /\ ~RecallExceeds(1)

(***************************************************************************)
(* C3: an epoch that did not converge appends floor(learning_rate * |D|)   *)
(* rows, each the feature row and true label of a different disagreeing    *)
(* evaluation row.                                                         *)
(***************************************************************************)
C3_AppendsFloorOfDisagreements ==
    [][pc = "add" =>
         LET old == Len(X_train)
             added == Len(X_train') - old
         IN  /\ added = FloorOfRate(Cardinality(Disagreements))
             /\ Len(y_train') - Len(y_train) = added
             /\ \E idx \in [1..added -> Disagreements] :
                   /\ \A a, b \in 1..added : a # b => idx[a] # idx[b]
                   /\ \A j \in 1..added :
                         /\ X_train'[old + j] = X[idx[j]]
                         /\ y_train'[old + j] = y[idx[j]]]_vars

\* a proper part of several disagreements was appended
C3_Witness ==
    /\ pc = "while" /\ current_epoch >= 1
    /\ Len(hard_samples_chosen) >= 1
    /\ Len(hard_samples_chosen) < Len(hard_samples_indexes)
    /\ Len(X_train) = initial_train_size + Len(hard_samples_chosen)

(***************************************************************************)
(* C4: with no disagreement and no convergence, the selection does not     *)
(* raise and the epoch ends with the training set as it was.               *)
(***************************************************************************)
C4_EmptyDisagreementCarriesOn ==
    [][/\ (pc = "select" /\ Disagreements = {}) =>
             pc' = "add" /\ error' = "none" /\ hard_samples_chosen' = <<>>
       /\ (pc = "add" /\ Disagreements = {}) =>
             pc' = "while" /\ X_train' = X_train /\ y_train' = y_train]_vars

\* the second epoch started on the unchanged training set
C4_Witness ==
    /\ pc = "project" /\ current_epoch = 1
    /\ Disagreements = {} /\ hard_samples_indexes = <<>>
    /\ Len(X_train) = initial_train_size

(***************************************************************************)
(* C5: the selection of hard samples never raises, whatever the learning   *)
(* rate and the disagreement set.                                          *)
(***************************************************************************)
C5_SelectionNeverRaises == error # "ValueError"

(***************************************************************************)
(* C6: the run never fails, and at the end the stored classifier is the    *)
(* one fitted in the last epoch that ran and the one the final report      *)
(* evaluated.                                                              *)
(***************************************************************************)
C6_RunReachesDoneWithModel ==
    /\ pc # "failed"
    /\ pc = "done" =>
          /\ clf.fitted /\ clf.epoch = LastEpoch
          /\ evaluated_with = clf /\ stored_model = clf

(***************************************************************************)
(* C7: the training set never shrinks, an append keeps the rows it had in  *)
(* place, and an epoch that chose hard samples makes it strictly larger.   *)
(***************************************************************************)
C7_TrainingSetOnlyGrows ==
    [][/\ Len(X_train') >= Len(X_train)
       /\ Len(y_train') >= Len(y_train)
       /\ SubSeq(X_train', 1, Len(X_train)) = X_train
       /\ SubSeq(y_train', 1, Len(y_train)) = y_train
       /\ pc = "add" =>
             \/ Len(X_train') > Len(X_train)
             \/ Len(hard_samples_chosen) = 0]_vars

\* two epochs, each of which made the training set larger
C7_Witness ==
    /\ pc = "while" /\ current_epoch = 2
    /\ Len(hard_samples_chosen) >= 1
    /\ Len(X_train) > initial_train_size + Len(hard_samples_chosen)

(***************************************************************************)
(* C8: features and labels of both sets have the same length, and the      *)
(* evaluation set is the full data set and is never modified.              *)
(***************************************************************************)
C8_SetsAlignedAndEvaluationFixed ==
    /\ [](/\ Len(X_train) = Len(y_train)
          /\ Len(X_test) = Len(y_test)
          /\ pc # "assemble" => X_test = X /\ y_test = y)
    /\ [][/\ X' = X /\ y' = y
          /\ pc # "assemble" => X_test' = X_test /\ y_test' = y_test]_vars

\* hard samples were appended next to the untouched evaluation set
C8_Witness ==
    /\ pc = "while" /\ current_epoch >= 1
    /\ Len(X_train) > initial_train_size
    /\ Len(X_test) = NumRows

(***************************************************************************)
(* C9: the projection is fitted once, on the full feature matrix, before   *)
(* the first epoch, is never changed afterwards, and projects both sets in *)
(* every epoch and the full data set in the final report.                  *)
(***************************************************************************)
C9_ProjectionFittedOnce ==
    /\ [](/\ pc \notin {"assemble", "pca"} =>
                pca_fits = 1 /\ pca.fitted /\ pca.data = X
          /\ pc \in {"fit", "check", "select", "add"} =>
                /\ X_train_pca.model = pca /\ X_train_pca.rows = X_train
                /\ X_test_pca.model = pca /\ X_test_pca.rows = X_test
                /\ X_train_pca.model.data = X
          /\ pc \in {"store", "done"} => X_pca.model = pca)
    /\ [][(pca' # pca \/ pca_fits' # pca_fits) =>
             pc = "pca" /\ ~clf.fitted /\ current_epoch = 0]_vars

\* the second epoch projected a grown training set with the first fit
C9_Witness ==
    /\ pc = "fit" /\ current_epoch = 1
    /\ Len(X_train_pca.rows) > initial_train_size
    /\ X_train_pca.model.data = X

(***************************************************************************)
(* C10 as stated: with threshold 0 the loop converges in epoch 0 whatever  *)
(* the classifier predicts: no hard samples are selected and the epoch     *)
(* counter stays 0.                                                        *)
(***************************************************************************)
C10_ZeroThresholdAlwaysConverges ==
    convergence_threshold = <<0, 1>> =>
        /\ pc \notin {"select", "add"}
        /\ current_epoch = 0
        /\ (LoopLeft /\ max_epochs > 0) => convergence

(***************************************************************************)
(* C10 amended: with threshold 0 the check of epoch 0 converges exactly    *)
(* when each class has an evaluation row that is predicted correctly;      *)
(* then the counter stays 0 and the training set is left alone.            *)
(***************************************************************************)
C10_ZeroThresholdConvergesIffBothClassesHit ==
    [][(pc = "check" /\ convergence_threshold = <<0, 1>>
          /\ current_epoch = 0) =>
         /\ (pc' = "report" /\ convergence') <=>
                (TruePositives(0) > 0 /\ TruePositives(1) > 0)
         /\ pc' = "report" =>
                current_epoch' = 0 /\ X_train' = X_train
                /\ Len(X_train') = initial_train_size]_vars

\* a classifier that errs converged at threshold 0 in epoch 0
C10_Witness ==
    /\ convergence_threshold = <<0, 1>>
    /\ pc = "report" /\ convergence /\ current_epoch = 0
    /\ Disagreements # {}
    /\ Len(X_train) = initial_train_size

(***************************************************************************)
(* C11: the stored classifier was fitted in the last epoch that ran, on    *)
(* the training set as that epoch found it.  After convergence the final   *)
(* training set is that set; after the epochs ran out it is that set       *)
(* followed by the hard samples of the last epoch, which were appended     *)
(* after the last fit.                                                     *)
(***************************************************************************)
C11_StoredModelFittedBeforeLastAppend ==
    pc = "done" =>
        /\ stored_model.fitted /\ stored_model.epoch = LastEpoch
        /\ Len(stored_model.X.rows) = Len(stored_model.y)
        /\ convergence =>
              /\ X_train = stored_model.X.rows
              /\ y_train = stored_model.y
        /\ ~convergence =>
              /\ current_epoch = max_epochs
              /\ X_train = stored_model.X.rows
                              \o [j \in 1..Len(hard_samples_chosen) |->
                                     X[hard_samples_chosen[j]]]
              /\ y_train = stored_model.y
                              \o [j \in 1..Len(hard_samples_chosen) |->
                                     y[hard_samples_chosen[j]]]
              /\ Len(stored_model.y) + Len(hard_samples_chosen) = Len(y_train)

\* the epochs ran out and the last epoch's hard samples are in the final
\* training set, but not in the set the stored classifier was fitted on
C11_Witness ==
    /\ pc = "done" /\ ~convergence
    /\ Len(hard_samples_chosen) >= 1
    /\ Len(X_train) > Len(stored_model.X.rows)

====
